---- MODULE Spec2Model ----
(***************************************************************************)
(* Model of WeatherTool.get_weather (src/weather_tool.py) and of the poll   *)
(* loop of run_conversation (src/weather_agent.py, src/app.py).            *)
(*                                                                         *)
(* One call of get_weather is a sequential process; pc is its position.    *)
(* One call of run_conversation is a sequential process; a_pc is its       *)
(* position.                                                               *)
(* Python values are tagged records:                                       *)
(*   [t |-> "none"]                 None                                   *)
(*   [t |-> "int",    n  |-> 5]     int                                    *)
(*   [t |-> "str",    s  |-> "TMP"] str, a text atom                       *)
(*   [t |-> "digits", ds |-> <<0,0>>] str made of decimal digits only,     *)
(*                                  kept as the sequence of its digits so  *)
(*                                  that comparison and slicing are the    *)
(*                                  string operations of the code          *)
(*   [t |-> "list",   l  |-> <<...>>] list                                 *)
(*   [t |-> "dict",   d  |-> [key |-> value]] dict with string keys        *)
(*                                                                         *)
(* TLA+ strings hold ASCII only, so the Korean literals of the source are  *)
(* written as English glosses:                                             *)
(*   locations  서울 Seoul, 인천 Incheon, 부산 Busan, 대구 Daegu,          *)
(*     광주 Gwangju, 대전 Daejeon, 울산 Ulsan, 세종 Sejong, 경기 Gyeonggi, *)
(*     강원 Gangwon, 충북 Chungbuk, 충남 Chungnam, 전북 Jeonbuk,           *)
(*     전남 Jeonnam, 경북 Gyeongbuk, 경남 Gyeongnam, 제주 Jeju,            *)
(*     구로구 Guro-gu, 은평구 Eunpyeong-gu, 양천구 Yangcheon-gu            *)
(*   labels  강수확률 precipitation probability, 강수형태 precipitation    *)
(*     type, 습도 humidity, 하늘상태 sky, 기온 temperature, 최저기온 min   *)
(*     temperature, 최고기온 max temperature, 동서바람성분 wind u,         *)
(*     남북바람성분 wind v, 파고 wave height, 풍향 wind direction,         *)
(*     풍속 wind speed                                                     *)
(*   values  없음 none, 비 rain, 비/눈 rain/snow, 눈 snow, 소나기 shower,  *)
(*     맑음 clear, 구름많음 mostly cloudy, 흐림 overcast,                  *)
(*     정보 없음 no info                                                   *)
(***************************************************************************)
EXTENDS Integers, Sequences, FiniteSets, TLC

VARIABLES
    pc,               \* position of the call in get_weather
    api_key,          \* self.api_key
    location,         \* the argument
    now,              \* datetime.datetime.now(), read once at line 61
    base_date,        \* local base_date (YYYYMMDD)
    base_time,        \* local base_time (HHMM)
    params,           \* the query parameters of the request
    http_calls,       \* number of requests.get calls made by this call
    response,         \* what requests.get returned
    data,             \* response.json()
    items,            \* data['response']['body']['items']['item']
    current_forecast, \* the dict of slots, in insertion order
    sorted_forecasts, \* sorted(current_forecast.values(), ...)
    weather_info,     \* the success structure being built
    result,           \* the value returned to the caller
    exc,              \* the exception that left get_weather, if any
    a_pc,             \* position of the call in run_conversation
    run_status,       \* run.status as the last retrieve returned it
    polls,            \* number of runs.retrieve calls made by this call
    tool_calls,       \* the tool calls of the loop at line 100 still to handle
    tool_outputs,     \* local tool_outputs
    weather_calls,    \* get_weather calls made since the last retrieve
    submits,          \* submit_tool_outputs calls made since the last retrieve
    messages,         \* messages.data
    a_result          \* the value run_conversation returned

agent_vars == << a_pc, run_status, polls, tool_calls, tool_outputs,
                 weather_calls, submits, messages, a_result >>

tool_vars == << pc, api_key, location, now, base_date, base_time, params,
                http_calls, response, data, items, current_forecast,
                sorted_forecasts, weather_info, result, exc >>

vars == << tool_vars, agent_vars >>

-----------------------------------------------------------------------------
(* Python values *)

PyNone == [t |-> "none"]
PyInt(n) == [t |-> "int", n |-> n]
PyStr(s) == [t |-> "str", s |-> s]
PyDigits(ds) == [t |-> "digits", ds |-> ds]
PyList(l) == [t |-> "list", l |-> l]
PyDict(d) == [t |-> "dict", d |-> d]
EmptyDict == PyDict(<<>>)

\* a local that has not been assigned yet
Unset == [t |-> "unset"]

\* a == b of Python, for the scalar values the model compares
PyEq(a, b) ==
    /\ a.t = b.t
    /\ CASE a.t = "int" -> a.n = b.n
         [] a.t = "str" -> a.s = b.s
         [] a.t = "digits" -> a.ds = b.ds
         [] a.t = "list" -> Len(a.l) = 0 /\ Len(b.l) = 0
         [] a.t = "dict" -> DOMAIN a.d = {} /\ DOMAIN b.d = {}
         [] OTHER -> TRUE

\* bool(v) of Python
Truthy(v) ==
    CASE v.t = "none" -> FALSE
      [] v.t = "int" -> v.n # 0
      [] v.t = "str" -> v.s # ""
      [] v.t = "digits" -> Len(v.ds) > 0
      [] v.t = "list" -> Len(v.l) > 0
      [] v.t = "dict" -> DOMAIN v.d # {}

\* outcome of evaluating an expression: a value or a raised exception
Ok(v) == [ok |-> TRUE, val |-> v]
Raised(e) == [ok |-> FALSE, exc |-> e]

\* the text atoms of the model that contain the key as a substring
SubstringOf(key) ==
    IF key = "item" THEN {"item", "items"} ELSE {key}

\* `key in container` of Python, key a text str
PyContains(key, c) ==
    CASE c.t = "dict" -> Ok(key \in DOMAIN c.d)
      [] c.t = "str" -> Ok(c.s \in SubstringOf(key))
      [] c.t = "digits" -> Ok(FALSE)
      [] c.t = "list" ->
            Ok(\E i \in 1..Len(c.l) : c.l[i].t = "str" /\ c.l[i].s = key)
      [] OTHER -> Raised("TypeError")

\* `obj[key]` of Python, key a text str
PyGetItem(obj, key) ==
    CASE obj.t = "dict" ->
            IF key \in DOMAIN obj.d THEN Ok(obj.d[key]) ELSE Raised("KeyError")
      [] OTHER -> Raised("TypeError")

-----------------------------------------------------------------------------
(* Digit strings *)

RECURSIVE Pad(_, _)
\* n formatted in decimal, zero-padded to width w (n < 10^w)
Pad(n, w) == IF w = 0 THEN <<>> ELSE Append(Pad(n \div 10, w - 1), n % 10)

RECURSIVE DigitsLess(_, _)
\* a < b for two Python strings of digits (lexicographic)
DigitsLess(a, b) ==
    IF Len(b) = 0 THEN FALSE
    ELSE IF Len(a) = 0 THEN TRUE
    ELSE IF Head(a) # Head(b) THEN Head(a) < Head(b)
    ELSE DigitsLess(Tail(a), Tail(b))

\* a < b of Python; a str against a non-str, or None, raises TypeError
PyLess(a, b) ==
    CASE a.t = "digits" /\ b.t = "digits" -> Ok(DigitsLess(a.ds, b.ds))
      [] a.t = "int" /\ b.t = "int" -> Ok(a.n < b.n)
      [] OTHER -> Raised("TypeError")

-----------------------------------------------------------------------------
(* The calendar: datetime arithmetic and strftime *)

IsLeap(y) == (y % 4 = 0 /\ y % 100 # 0) \/ y % 400 = 0

DaysInMonth(y, m) ==
    IF m = 2 THEN (IF IsLeap(y) THEN 29 ELSE 28)
    ELSE IF m \in {4, 6, 9, 11} THEN 30 ELSE 31

\* d - datetime.timedelta(days=1)
MinusOneDay(d) ==
    IF d.day > 1 THEN [d EXCEPT !.day = d.day - 1]
    ELSE IF d.month > 1
         THEN [d EXCEPT !.month = d.month - 1,
                        !.day = DaysInMonth(d.year, d.month - 1)]
         ELSE [d EXCEPT !.year = d.year - 1, !.month = 12, !.day = 31]

\* d + one day: the dates the upstream service forecasts for
PlusOneDay(d) ==
    IF d.day < DaysInMonth(d.year, d.month) THEN [d EXCEPT !.day = d.day + 1]
    ELSE IF d.month < 12 THEN [d EXCEPT !.month = d.month + 1, !.day = 1]
         ELSE [d EXCEPT !.year = d.year + 1, !.month = 1, !.day = 1]

\* d.strftime("%Y%m%d")
StrfYmd(d) == Pad(d.year, 4) \o Pad(d.month, 2) \o Pad(d.day, 2)

\* d.strftime("%H%M")
StrfHM(d) == Pad(d.hour, 2) \o Pad(d.minute, 2)

-----------------------------------------------------------------------------
(* Region registry *)

\* location_codes.keys(), in insertion order
LocationNames ==
    << "Seoul", "Incheon", "Busan", "Daegu", "Gwangju", "Daejeon", "Ulsan",
       "Sejong", "Gyeonggi", "Gangwon", "Chungbuk", "Chungnam", "Jeonbuk",
       "Jeonnam", "Gyeongbuk", "Gyeongnam", "Jeju",
       "Guro-gu", "Eunpyeong-gu", "Yangcheon-gu" >>

LocationGrid ==
    << <<60, 127>>, <<55, 124>>, <<98, 76>>, <<89, 90>>, <<58, 74>>,
       <<67, 100>>, <<102, 84>>, <<66, 103>>, <<60, 120>>, <<73, 134>>,
       <<69, 107>>, <<68, 100>>, <<63, 89>>, <<51, 67>>, <<89, 91>>,
       <<91, 77>>, <<52, 38>>, <<58, 125>>, <<59, 127>>, <<58, 126>> >>

location_codes ==
    [name \in {LocationNames[i] : i \in DOMAIN LocationNames} |->
        LET i == CHOOSE j \in DOMAIN LocationNames : LocationNames[j] = name
        IN  [nx |-> LocationGrid[i][1], ny |-> LocationGrid[i][2]]]

-----------------------------------------------------------------------------
(* Batch selection *)

\* sorted(forecast_hours, reverse=True)
forecast_hours_desc == << 23, 20, 17, 14, 11, 8, 5, 2 >>

RECURSIVE FirstIssuedStrict(_, _)
\* FirstIssued with the comparison of line 72 written as >
FirstIssuedStrict(current_hour, i) ==
    IF i > Len(forecast_hours_desc) THEN -1
    ELSE IF current_hour > forecast_hours_desc[i] THEN forecast_hours_desc[i]
    ELSE FirstIssuedStrict(current_hour, i + 1)

RECURSIVE FirstIssued(_, _)
\* the for loop of lines 71-74 from position i: the first hour of the
\* descending list with current_hour >= hour, or -1 for base_time None
FirstIssued(current_hour, i) ==
    IF i > Len(forecast_hours_desc) THEN -1
    ELSE IF current_hour >= forecast_hours_desc[i] THEN forecast_hours_desc[i]
    ELSE FirstIssued(current_hour, i + 1)

\* lines 61-80: the batch (base_date, base_time) for now
SelectBatch(n) ==
    LET hour == FirstIssued(n.hour, 1)
    IN  IF hour = -1
        THEN [base_date |-> StrfYmd(MinusOneDay(n)), base_time |-> <<2, 3, 0, 0>>]
        ELSE [base_date |-> StrfYmd(n), base_time |-> Pad(hour, 2) \o <<0, 0>>]

-----------------------------------------------------------------------------
(* Error structures: {"error": message}.  msg names the message text of the *)
(* source line that builds it, arg is what the f-string interpolates.       *)

\* Error with the forecasts built so far left beside the message
ErrorWithForecasts(msg, arg) ==
    [error |-> [msg |-> msg, arg |-> arg], forecasts |-> <<>>]

Error(msg, arg) == [error |-> [msg |-> msg, arg |-> arg]]

NoArg == PyNone

\* the exceptions the handlers of lines 235-238 catch
CaughtAsRequest == {"RequestException"}
CaughtAsProcessing == {"KeyError", "IndexError", "ValueError"}

-----------------------------------------------------------------------------
(* Forecast client: classification of the response *)

\* lines 103-113: the message for a text that holds the XML envelope
\* <OpenAPI_ServiceResponse>; text.tokens is the set of fault tokens that
\* occur in response.text
XmlMessage(text) ==
    IF "SERVICE_KEY_IS_NOT_REGISTERED_ERROR" \in text.tokens THEN "KeyNotRegistered"
    ELSE IF "SERVICE_KEY_IS_NOT_REGISTERED" \in text.tokens THEN "KeyNotRegistered"
    ELSE IF "LIMITED_NUMBER_OF_SERVICE_REQUESTS_EXCEEDS_ERROR" \in text.tokens
         THEN "DailyLimit"
    ELSE IF "DEADLINE_HAS_EXPIRED" \in text.tokens THEN "Expired"
    ELSE IF "INVALID_PARAMETER" \in text.tokens THEN "BadParameter"
    ELSE "KeyInvalid"

RECURSIVE MissingAlong(_, _)
\* `k1 not in obj or k2 not in obj[k1] or ...` for keys = <<k1, k2, ...>>
MissingAlong(obj, keys) ==
    LET c == PyContains(Head(keys), obj)
    IN  IF ~c.ok THEN c
        ELSE IF ~c.val THEN Ok(TRUE)
        ELSE IF Len(keys) = 1 THEN Ok(FALSE)
        ELSE LET g == PyGetItem(obj, Head(keys))
             IN  IF ~g.ok THEN g ELSE MissingAlong(g.val, Tail(keys))

RECURSIVE Path(_, _)
\* obj[k1][k2]... for keys = <<k1, k2, ...>>
Path(obj, keys) ==
    IF keys = <<>> THEN Ok(obj)
    ELSE LET g == PyGetItem(obj, Head(keys))
         IN  IF ~g.ok THEN g ELSE Path(g.val, Tail(keys))

\* line 123: 'response' not in data or 'header' not in data['response']
HeaderMissing(d) == MissingAlong(d, << "response", "header" >>)

\* line 126: data['response']['header']['resultCode']
ResultCodeOf(d) == Path(d, << "response", "header", "resultCode" >>)

\* ResultCodeBad with the code compared to the number 0
ResultCodeBadAgainstInt(code) == ~PyEq(code, PyInt(0))

\* line 127: result_code != '00'
ResultCodeBad(code) == ~PyEq(code, PyDigits(<<0, 0>>))

\* line 128: data['response']['header']['resultMsg']
ResultMsgOf(d) == Path(d, << "response", "header", "resultMsg" >>)

\* line 131: 'body' not in data['response'] or 'items' not in ... or 'item' not in ...
ItemsMissing(d) ==
    LET r == PyGetItem(d, "response")
    IN  IF ~r.ok THEN r ELSE MissingAlong(r.val, << "body", "items", "item" >>)

\* line 134: data['response']['body']['items']['item']
ItemsOf(d) == Path(d, << "response", "body", "items", "item" >>)

-----------------------------------------------------------------------------
(* Forecast decoder *)

\* lines 147-160
weather_codes ==
    [ POP |-> "precipitation probability", PTY |-> "precipitation type",
      REH |-> "humidity", SKY |-> "sky", TMP |-> "temperature",
      TMN |-> "min temperature", TMX |-> "max temperature",
      UUU |-> "wind u", VVV |-> "wind v", WAV |-> "wave height",
      VEC |-> "wind direction", WSD |-> "wind speed" ]

\* lines 163-169, keyed by the digit string of the code
pty_codes ==
    (<<0>> :> "none") @@ (<<1>> :> "rain") @@ (<<2>> :> "rain/snow") @@
    (<<3>> :> "snow") @@ (<<4>> :> "shower")

\* lines 172-176
sky_codes ==
    (<<1>> :> "clear") @@ (<<3>> :> "mostly cloudy") @@ (<<4>> :> "overcast")

\* line 211: sorted_forecasts[:24]
MaxSlots == 24

\* the default of current_data.get(label, ...), lines 225-230
NoInfo == PyStr("no info")

\* DictGet that never finds the key
DictGetNoDecode(table, v) ==
    IF v.t \in {"list", "dict"} THEN Raised("TypeError") ELSE Ok(v)

\* table.get(v, v): a list or dict key is unhashable
DictGet(table, v) ==
    IF v.t \in {"list", "dict"} THEN Raised("TypeError")
    ELSE IF v.t = "digits" /\ v.ds \in DOMAIN table THEN Ok(PyStr(table[v.ds]))
    ELSE Ok(v)

\* line 188: category in weather_codes
KnownCategory(category) ==
    IF category.t \in {"list", "dict"} THEN Raised("TypeError")
    ELSE Ok(category.t = "str" /\ category.s \in DOMAIN weather_codes)

\* PassesFilter that compares the dates only
PassesFilterDateOnly(fcst_date, fcst_time, bd, ct) ==
    LET later == PyLess(PyDigits(bd), fcst_date)
    IN  IF ~later.ok THEN later
        ELSE Ok(later.val \/ PyEq(fcst_date, PyDigits(bd)))

\* line 187: (fcst_date > base_date) or
\*           (fcst_date == base_date and fcst_time >= current_time)
PassesFilter(fcst_date, fcst_time, bd, ct) ==
    LET later == PyLess(PyDigits(bd), fcst_date)
    IN  IF ~later.ok THEN later
        ELSE IF later.val THEN Ok(TRUE)
        ELSE IF ~PyEq(fcst_date, PyDigits(bd)) THEN Ok(FALSE)
        ELSE LET before == PyLess(fcst_time, PyDigits(ct))
             IN  IF ~before.ok THEN before ELSE Ok(~before.val)

\* lines 189-194: the decoded value of a record of a known category
DecodeValue(category, item) ==
    LET v == PyGetItem(item, "fcstValue")
    IN  IF ~v.ok THEN v
        ELSE IF category.s = "PTY" THEN DictGet(pty_codes, v.val)
        ELSE IF category.s = "SKY" THEN DictGet(sky_codes, v.val)
        ELSE v

RECURSIVE IntDigits(_)
\* str(n) for n >= 0
IntDigits(n) == IF n < 10 THEN <<n>> ELSE Append(IntDigits(n \div 10), n % 10)

\* the text an f-string gives a value; None (the text "None") is <<-1>>
Interpolated(v) ==
    CASE v.t = "digits" -> v.ds
      [] v.t = "int" -> IntDigits(v.n)
      [] OTHER -> <<-1>>

\* line 197: f"{fcst_date}_{fcst_time}"
ForecastKey(fcst_date, fcst_time) ==
    << Interpolated(fcst_date), Interpolated(fcst_time) >>

\* lines 198-205: current_forecast after storing value under the label;
\* cf is the dict as the sequence of its values in insertion order
StoreValue(cf, fcst_date, fcst_time, label, value) ==
    LET key == ForecastKey(fcst_date, fcst_time)
        cf1 == IF \E i \in 1..Len(cf) : cf[i].key = key THEN cf
               ELSE Append(cf, [key |-> key, date |-> fcst_date,
                                time |-> fcst_time, data |-> <<>>])
        i == CHOOSE j \in 1..Len(cf1) : cf1[j].key = key
        old == cf1[i].data
        new == [l \in DOMAIN old \cup {label} |->
                    IF l = label THEN value ELSE old[l]]
    IN  [cf1 EXCEPT ![i].data = new]

\* lines 181-205: the body of the loop for one item
DecodeItem(item, cf, bd, ct) ==
    LET category == PyGetItem(item, "category")
        fcst_date == PyGetItem(item, "fcstDate")
        fcst_time == PyGetItem(item, "fcstTime")
    IN  IF ~category.ok THEN category
        ELSE IF ~fcst_date.ok THEN fcst_date
        ELSE IF ~fcst_time.ok THEN fcst_time
        ELSE LET pass == PassesFilter(fcst_date.val, fcst_time.val, bd, ct)
             IN  IF ~pass.ok THEN pass
                 ELSE IF ~pass.val THEN Ok(cf)
                 ELSE LET known == KnownCategory(category.val)
                      IN  IF ~known.ok THEN known
                          ELSE IF ~known.val THEN Ok(cf)
                          ELSE LET value == DecodeValue(category.val, item)
                               IN  IF ~value.ok THEN value
                                   ELSE Ok(StoreValue(cf, fcst_date.val,
                                               fcst_time.val,
                                               weather_codes[category.val.s],
                                               value.val))

RECURSIVE SetToSeq(_)
SetToSeq(S) ==
    IF S = {} THEN <<>>
    ELSE LET x == CHOOSE y \in S : TRUE IN <<x>> \o SetToSeq(S \ {x})

\* `for item in items`: the elements iterated, or TypeError when items is
\* not iterable; a dict yields its keys and a str its characters, all str
IterItems(v) ==
    CASE v.t = "list" -> Ok(v.l)
      [] v.t = "dict" ->
            Ok(LET ks == SetToSeq(DOMAIN v.d) IN [i \in 1..Len(ks) |-> PyStr(ks[i])])
      [] v.t = "str" -> Ok(<< PyStr(v.s) >>)
      [] v.t = "digits" -> Ok([i \in 1..Len(v.ds) |-> PyDigits(<<v.ds[i]>>)])
      [] OTHER -> Raised("TypeError")

RECURSIVE DecodeLoop(_, _, _, _)
\* lines 180-205: the loop over the remaining items
DecodeLoop(its, cf, bd, ct) ==
    IF its = <<>> THEN Ok(cf)
    ELSE LET r == DecodeItem(Head(its), cf, bd, ct)
         IN  IF ~r.ok THEN r ELSE DecodeLoop(Tail(its), r.val, bd, ct)

\* lines 179-205
Decode(its, bd, ct) ==
    LET seq == IterItems(its)
    IN  IF ~seq.ok THEN seq ELSE DecodeLoop(seq.val, <<>>, bd, ct)

\* (a["date"], a["time"]) < (b["date"], b["time"]), the tuple comparison
SlotLess(a, b) ==
    IF ~PyEq(a.date, b.date) THEN PyLess(a.date, b.date)
    ELSE IF ~PyEq(a.time, b.time) THEN PyLess(a.time, b.time)
    ELSE Ok(FALSE)

RECURSIVE InsertSlot(_, _)
\* x put into the sorted s after the elements that are not greater
InsertSlot(x, s) ==
    IF s = <<>> THEN Ok(<<x>>)
    ELSE LET lt == SlotLess(x, Head(s))
         IN  IF ~lt.ok THEN lt
             ELSE IF lt.val THEN Ok(<<x>> \o s)
             ELSE LET rest == InsertSlot(x, Tail(s))
                  IN  IF ~rest.ok THEN rest ELSE Ok(<<Head(s)>> \o rest.val)

RECURSIVE SortSlots(_, _)
\* line 208: sorted(current_forecast.values(), key=(date, time)), a stable
\* sort; acc is the sorted prefix
SortSlots(cf, acc) ==
    IF cf = <<>> THEN Ok(acc)
    ELSE LET r == InsertSlot(Head(cf), acc)
         IN  IF ~r.ok THEN r ELSE SortSlots(Tail(cf), r.val)

Min(a, b) == IF a < b THEN a ELSE b

\* s[i:j] of Python on a digit string, 0-based and clamped
Slice(s, i, j) == SubSeq(s, i + 1, Min(j, Len(s)))

\* lines 212-219: one entry of weather_info["forecasts"];
\* date is "MM/DD" as [mm, dd], time is "HH:MM" as [hh, mi]
FormatSlot(f) ==
    IF f.time.t # "digits" \/ f.date.t # "digits" THEN Raised("TypeError")
    ELSE Ok([ date |-> [mm |-> Slice(f.date.ds, 4, 6),
                        dd |-> Slice(f.date.ds, 6, Len(f.date.ds))],
              time |-> [hh |-> Slice(f.time.ds, 0, 2),
                        mi |-> Slice(f.time.ds, 2, Len(f.time.ds))],
              data |-> f.data ])

RECURSIVE FormatSlots(_)
\* lines 211-219 over the slots given
FormatSlots(fs) ==
    IF fs = <<>> THEN Ok(<<>>)
    ELSE LET h == FormatSlot(Head(fs))
         IN  IF ~h.ok THEN h
             ELSE LET t == FormatSlots(Tail(fs))
                  IN  IF ~t.ok THEN t ELSE Ok(<<h.val>> \o t.val)

\* Truncate keeping one slot more
TruncateOneMore(fs) == SubSeq(fs, 1, Min(MaxSlots + 1, Len(fs)))

\* line 211: sorted_forecasts[:24]
Truncate(fs) == SubSeq(fs, 1, Min(MaxSlots, Len(fs)))

\* GetLabel without the default
GetLabelNoDefault(current_data, label) ==
    IF label \in DOMAIN current_data THEN current_data[label] ELSE PyNone

\* current_data.get(label, "no info")
GetLabel(current_data, label) ==
    IF label \in DOMAIN current_data THEN current_data[label] ELSE NoInfo

\* lines 223-231
Snapshot(current_data) ==
    [ temperature |-> GetLabel(current_data, "temperature"),
      sky |-> GetLabel(current_data, "sky"),
      precipitation_type |-> GetLabel(current_data, "precipitation type"),
      precipitation_probability |->
          GetLabel(current_data, "precipitation probability"),
      humidity |-> GetLabel(current_data, "humidity"),
      wind_speed |-> GetLabel(current_data, "wind speed") ]

-----------------------------------------------------------------------------
(* The inputs of a call: the environment *)

\* os.getenv("WEATHER_API_KEY"): unset, set to the empty string, or set
ApiKeys == << PyNone, PyStr(""), PyStr("KEY") >>

\* the location arguments tried: a supported name, and three that are not
\* (another case, a trailing blank, a name outside the table)
Locations == { "Seoul", "seoul", "Seoul ", "Tokyo" }

NowDates ==
    { [year |-> 2024, month |-> 3, day |-> 1],
      [year |-> 2023, month |-> 12, day |-> 31] }

NowMinutes == { 0, 30 }

\* the values datetime.datetime.now() takes
Nows ==
    { [year |-> d.year, month |-> d.month, day |-> d.day,
       hour |-> h, minute |-> m] : d \in NowDates, h \in 0..23, m \in NowMinutes }

\* longest list of records drawn freely from the sample records
MaxItems == 2

\* the long item lists hold up to MaxSlots + MaxExtra records
MaxExtra == 3

Record(category, fcstDate, fcstTime, fcstValue) ==
    PyDict([ category |-> category, fcstDate |-> fcstDate,
             fcstTime |-> fcstTime, fcstValue |-> fcstValue ])

Ymd(d) == PyDigits(StrfYmd(d))
HM(h, m) == PyDigits(Pad(h, 2) \o Pad(m, 2))

\* well-formed sample records around the day n: today noon twice in one slot,
\* tomorrow midnight (one of an unknown category), today midnight, and
\* yesterday late evening
SampleRecords(n) ==
    LET today == Ymd(n)
        tomorrow == Ymd(PlusOneDay(n))
        yesterday == Ymd(MinusOneDay(n))
    IN  { Record(PyStr("TMP"), today, HM(12, 0), PyDigits(<<5>>)),
          Record(PyStr("PTY"), today, HM(12, 0), PyDigits(<<1>>)),
          Record(PyStr("SKY"), tomorrow, HM(0, 0), PyDigits(<<2>>)),
          Record(PyStr("XXX"), tomorrow, HM(0, 0), PyDigits(<<1>>)),
          Record(PyStr("WSD"), today, HM(0, 0), PyDigits(<<3>>)),
          Record(PyStr("TMP"), yesterday, HM(23, 30), PyDigits(<<7>>)) }

RECURSIVE SeqsUpTo(_, _)
\* the sequences over S of length at most k
SeqsUpTo(S, k) ==
    IF k = 0 THEN { <<>> }
    ELSE LET shorter == SeqsUpTo(S, k - 1)
         IN  shorter \cup { Append(q, x) : q \in shorter, x \in S }

\* the categories the long lists cycle through: the 12 known ones and one not
CycleCategories ==
    << "TMP", "SKY", "PTY", "POP", "REH", "WSD", "XXX", "TMN", "TMX", "UUU",
       "VVV", "WAV", "VEC" >>

\* record i of a long list: the hours of today and tomorrow, visited out of
\* order (7 is coprime to 48), categories and values cycling
LongRecord(n, i) ==
    LET slot == (i * 7) % 48
        day == IF slot < 24 THEN Ymd(n) ELSE Ymd(PlusOneDay(n))
    IN  Record(PyStr(CycleCategories[(i % Len(CycleCategories)) + 1]),
               day, HM(slot % 24, 0), PyDigits(<< i % 6 >>))

LongList(n, len) == [i \in 1..len |-> LongRecord(n, i)]

\* records that are not well-formed, each tried alone and after a good one
BadRecords(n) ==
    LET tomorrow == Ymd(PlusOneDay(n))
    IN  << PyInt(5),
           PyNone,
           PyList(<<>>),
           EmptyDict,
           PyDict([ category |-> PyStr("TMP"), fcstDate |-> tomorrow,
                    fcstTime |-> HM(0, 0) ]),
           PyDict([ category |-> PyStr("XXX"), fcstDate |-> tomorrow,
                    fcstTime |-> HM(0, 0) ]),
           PyDict([ category |-> PyStr("TMP"), fcstDate |-> tomorrow,
                    fcstValue |-> PyDigits(<<5>>) ]),
           Record(PyStr("TMP"), tomorrow, PyInt(1200), PyDigits(<<5>>)),
           Record(PyStr("TMP"), tomorrow, PyNone, PyDigits(<<5>>)),
           Record(PyStr("TMP"), PyInt(20240302), HM(0, 0), PyDigits(<<5>>)),
           Record(PyStr("TMP"), Ymd(n), PyInt(1200), PyDigits(<<5>>)),
           Record(PyInt(1), tomorrow, HM(0, 0), PyDigits(<<5>>)),
           Record(PyStr("PTY"), tomorrow, HM(0, 0), PyList(<<>>)),
           Record(PyStr("PTY"), tomorrow, HM(0, 0), PyInt(1)),
           Record(PyStr("TMP"), tomorrow, HM(0, 0), PyNone) >>

\* the lists of well-formed records a response carries as 'item'
ItemLists(n) ==
    SeqsUpTo(SampleRecords(n), MaxItems)
    \cup { LongList(n, len) : len \in (MaxSlots - 2)..(MaxSlots + MaxExtra) }

\* the lists with a record that is not well-formed
OddItemLists(n) ==
    LET good == CHOOSE r \in SampleRecords(n) : r.d.category.s = "SKY"
        bad == BadRecords(n)
    IN  [i \in 1..Len(bad) |-> << bad[i] >>]
        \o [i \in 1..Len(bad) |-> << good, bad[i] >>]

Header(code) ==
    PyDict([ resultCode |-> code, resultMsg |-> PyStr("NORMAL_SERVICE") ])

\* a parsed body with every nested field and the given 'item' value
Body(code, item) ==
    PyDict([ response |->
        PyDict([ header |-> Header(code),
                 body |-> PyDict([ items |-> PyDict([ item |-> item ]) ]) ]) ])

Resp(v) == PyDict([ response |-> v ])

OkCode == PyDigits(<<0, 0>>)
NoDataCode == PyDigits(<<0, 3>>)

\* parsed bodies of other shapes
OddBodies(n) ==
    LET one == PyList(<< CHOOSE r \in SampleRecords(n) : r.d.category.s = "SKY" >>)
    IN
    << PyInt(5), PyNone, PyList(<<>>), PyStr("response"), EmptyDict,
       PyList(<< PyStr("response") >>),
       Resp(PyNone), Resp(PyStr("header")), Resp(EmptyDict),
       Resp(PyList(<< PyStr("header") >>)),
       Resp(PyDict([ header |-> PyNone ])),
       Resp(PyDict([ header |-> PyStr("resultCode") ])),
       Resp(PyDict([ header |-> EmptyDict ])),
       Resp(PyDict([ header |-> PyDict([ resultCode |-> NoDataCode ]) ])),
       Resp(PyDict([ header |-> PyDict([ resultCode |-> OkCode ]) ])),
       Resp(PyDict([ header |-> Header(NoDataCode) ])),
       Resp(PyDict([ header |-> Header(PyInt(0)) ])),
       Resp(PyDict([ header |-> Header(PyNone) ])),
       Body(NoDataCode, one),
       Body(NoDataCode, PyList(<<>>)),
       Resp(PyDict([ header |-> Header(NoDataCode), body |-> EmptyDict ])),
       Resp(PyDict([ header |-> Header(OkCode) ])),
       Resp(PyDict([ header |-> Header(OkCode), body |-> PyNone ])),
       Resp(PyDict([ header |-> Header(OkCode), body |-> PyStr("items") ])),
       Resp(PyDict([ header |-> Header(OkCode), body |-> EmptyDict ])),
       Resp(PyDict([ header |-> Header(OkCode),
                     body |-> PyDict([ items |-> PyStr("") ]) ])),
       Resp(PyDict([ header |-> Header(OkCode),
                     body |-> PyDict([ items |-> PyStr("item") ]) ])),
       Resp(PyDict([ header |-> Header(OkCode),
                     body |-> PyDict([ items |-> PyNone ]) ])),
       Resp(PyDict([ header |-> Header(OkCode),
                     body |-> PyDict([ items |-> EmptyDict ]) ])),
       Body(OkCode, PyNone), Body(OkCode, EmptyDict), Body(OkCode, PyInt(0)),
       Body(OkCode, PyStr("")), Body(OkCode, PyInt(5)), Body(OkCode, PyStr("x")),
       Body(OkCode, one.l[1]) >>

\* response.text: whether it holds the XML envelope, the fault tokens in it,
\* and what response.json() gives
Text(envelope, tokens, json) ==
    [ envelope |-> envelope, tokens |-> tokens, json |-> json ]

NotJson == Raised("JSONDecodeError")

XmlFaults ==
    { {},
      { "SERVICE_KEY_IS_NOT_REGISTERED_ERROR", "SERVICE_KEY_IS_NOT_REGISTERED" },
      { "SERVICE_KEY_IS_NOT_REGISTERED" },
      { "LIMITED_NUMBER_OF_SERVICE_REQUESTS_EXCEEDS_ERROR" },
      { "DEADLINE_HAS_EXPIRED" },
      { "INVALID_PARAMETER" },
      { "LIMITED_NUMBER_OF_SERVICE_REQUESTS_EXCEEDS_ERROR", "INVALID_PARAMETER" } }

\* status codes other than 200
OtherStatus == { 201, 404, 500 }

-----------------------------------------------------------------------------
(* get_weather, step by step *)

Init ==
    /\ pc = "check_key"
    /\ \E i \in 1..Len(ApiKeys) : api_key = ApiKeys[i]
    /\ location \in Locations
    /\ now = Unset
    /\ base_date = <<>>
    /\ base_time = <<>>
    /\ params = Unset
    /\ http_calls = 0
    /\ response = Unset
    /\ data = Unset
    /\ items = Unset
    /\ current_forecast = <<>>
    /\ sorted_forecasts = <<>>
    /\ weather_info = Unset
    /\ result = Unset
    /\ exc = "none"
    /\ a_pc = "setup"
    /\ run_status = "none"
    /\ polls = 0
    /\ tool_calls = <<>>
    /\ tool_outputs = <<>>
    /\ weather_calls = 0
    /\ submits = 0
    /\ messages = <<>>
    /\ a_result = Unset

Goto(next) == pc' = next /\ UNCHANGED << result, exc, agent_vars >>

\* a return statement
Finish(r) == pc' = "returned" /\ result' = r /\ UNCHANGED << exc, agent_vars >>

\* an exception raised inside the try block: lines 235-238 turn a
\* RequestException, KeyError, IndexError or ValueError into an error
\* structure; any other exception leaves get_weather
Throw(e) ==
    IF e \in CaughtAsRequest THEN Finish(Error("RequestFailed", PyStr(e)))
    ELSE IF e \in CaughtAsProcessing
         THEN Finish(Error("ProcessingFailed", PyStr(e)))
    ELSE pc' = "raised" /\ exc' = e /\ UNCHANGED << result, agent_vars >>

\* CheckApiKey without the test of line 26
CheckApiKeySkipped ==
    /\ pc = "check_key"
    /\ Goto("check_location")
    /\ UNCHANGED << api_key, location, now, base_date, base_time, params,
                    http_calls, response, data, items, current_forecast,
                    sorted_forecasts, weather_info >>

\* lines 26-27
CheckApiKey ==
    /\ pc = "check_key"
    /\ IF ~Truthy(api_key) THEN Finish(Error("NoApiKey", NoArg))
       ELSE Goto("check_location")
    /\ UNCHANGED << api_key, location, now, base_date, base_time, params,
                    http_calls, response, data, items, current_forecast,
                    sorted_forecasts, weather_info >>

\* line 57: location not in location_codes
Unsupported(loc) == loc \notin DOMAIN location_codes

\* LookupFailure listing the province and city names only
LookupFailureWithoutDistricts(loc) ==
    Error("NoLocationCode",
          [location |-> loc, names |-> SubSeq(LocationNames, 1, 17)])

\* line 58: the message names the location and joins location_codes.keys()
LookupFailure(loc) ==
    Error("NoLocationCode", [location |-> loc, names |-> LocationNames])

\* lines 57-58
CheckLocation ==
    /\ pc = "check_location"
    /\ IF Unsupported(location) THEN Finish(LookupFailure(location))
       ELSE Goto("select_batch")
    /\ UNCHANGED << api_key, location, now, base_date, base_time, params,
                    http_calls, response, data, items, current_forecast,
                    sorted_forecasts, weather_info >>

\* lines 83-92
Params(key, bd, bt, loc) ==
    [ serviceKey |-> key, pageNo |-> "1", numOfRows |-> "1000",
      dataType |-> "JSON", base_date |-> bd, base_time |-> bt,
      nx |-> location_codes[loc].nx, ny |-> location_codes[loc].ny ]

\* lines 61-92: read the clock, select the batch, build the parameters
SelectBatchStep ==
    /\ pc = "select_batch"
    /\ \E n \in Nows :
          LET batch == SelectBatch(n)
          IN  /\ now' = n
              /\ base_date' = batch.base_date
              /\ base_time' = batch.base_time
              /\ params' = Params(api_key, batch.base_date, batch.base_time,
                                  location)
    /\ Goto("request")
    /\ UNCHANGED << api_key, location, http_calls, response, data, items,
                    current_forecast, sorted_forecasts, weather_info >>

\* the bodies tried with a status other than 200: not JSON, an XML fault,
\* and a JSON body with every nested field
ErrorTexts ==
    { Text(FALSE, {}, NotJson),
      Text(TRUE, { "INVALID_PARAMETER" }, NotJson),
      Text(FALSE, {}, Ok(Body(OkCode, PyList(<<>>)))) }

\* the bodies of a 200 response that are an XML fault, not JSON at all, or
\* JSON with every nested field and a list of sample records as 'item'
PlainTexts(n) ==
    { Text(TRUE, f, NotJson) : f \in XmlFaults }
    \cup { Text(FALSE, {}, NotJson) }
    \cup { Text(FALSE, {}, Ok(Body(OkCode, PyList(l)))) : l \in ItemLists(n) }

\* the bodies of a 200 response that parse to some other shape
OddTexts(n) ==
    LET items_odd == OddItemLists(n)
        odd == OddBodies(n)
    IN  [i \in 1..Len(items_odd) |->
            Text(FALSE, {}, Ok(Body(OkCode, PyList(items_odd[i]))))]
        \o [i \in 1..Len(odd) |-> Text(FALSE, {}, Ok(odd[i]))]

\* line 95: the one requests.get; it raises or returns a response
HttpGet ==
    /\ pc = "request"
    /\ http_calls' = http_calls + 1
    /\ \/ /\ Throw("RequestException")
          /\ UNCHANGED response
       \/ /\ \E st \in OtherStatus, tx \in ErrorTexts :
                response' = [status_code |-> st, text |-> tx]
          /\ Goto("check_status")
       \/ /\ \E tx \in PlainTexts(now) :
                response' = [status_code |-> 200, text |-> tx]
          /\ Goto("check_status")
       \/ /\ LET odd == OddTexts(now)
             IN  \E i \in 1..Len(odd) :
                    response' = [status_code |-> 200, text |-> odd[i]]
          /\ Goto("check_status")
    /\ UNCHANGED << api_key, location, now, base_date, base_time, params, data,
                    items, current_forecast, sorted_forecasts, weather_info >>

\* lines 98-99
CheckStatus ==
    /\ pc = "check_status"
    /\ IF response.status_code # 200
       THEN Finish(Error("HttpStatus", PyInt(response.status_code)))
       ELSE Goto("check_xml")
    /\ UNCHANGED << api_key, location, now, base_date, base_time, params,
                    http_calls, response, data, items, current_forecast,
                    sorted_forecasts, weather_info >>

\* lines 102-114
CheckXml ==
    /\ pc = "check_xml"
    /\ IF response.text.envelope
       THEN Finish(Error(XmlMessage(response.text), NoArg))
       ELSE Goto("parse")
    /\ UNCHANGED << api_key, location, now, base_date, base_time, params,
                    http_calls, response, data, items, current_forecast,
                    sorted_forecasts, weather_info >>

\* lines 117-120
ParseJson ==
    /\ pc = "parse"
    /\ IF response.text.json.ok
       THEN data' = response.text.json.val /\ Goto("check_header")
       ELSE Finish(Error("NotJson", NoArg)) /\ UNCHANGED data
    /\ UNCHANGED << api_key, location, now, base_date, base_time, params,
                    http_calls, response, items, current_forecast,
                    sorted_forecasts, weather_info >>

\* lines 123-124
CheckHeader ==
    /\ pc = "check_header"
    /\ LET missing == HeaderMissing(data)
       IN  IF ~missing.ok THEN Throw(missing.exc)
           ELSE IF missing.val THEN Finish(Error("BadFormat", NoArg))
           ELSE Goto("check_result_code")
    /\ UNCHANGED << api_key, location, now, base_date, base_time, params,
                    http_calls, response, data, items, current_forecast,
                    sorted_forecasts, weather_info >>

\* lines 126-128
CheckResultCode ==
    /\ pc = "check_result_code"
    /\ LET code == ResultCodeOf(data)
           msg == ResultMsgOf(data)
       IN  IF ~code.ok THEN Throw(code.exc)
           ELSE IF ResultCodeBad(code.val)
                THEN IF ~msg.ok THEN Throw(msg.exc)
                     ELSE Finish(Error("ApiError", msg.val))
           ELSE Goto("check_items")
    /\ UNCHANGED << api_key, location, now, base_date, base_time, params,
                    http_calls, response, data, items, current_forecast,
                    sorted_forecasts, weather_info >>

\* lines 131-132
CheckItems ==
    /\ pc = "check_items"
    /\ LET missing == ItemsMissing(data)
       IN  IF ~missing.ok THEN Throw(missing.exc)
           ELSE IF missing.val THEN Finish(Error("NoWeatherData", NoArg))
           ELSE Goto("check_empty")
    /\ UNCHANGED << api_key, location, now, base_date, base_time, params,
                    http_calls, response, data, items, current_forecast,
                    sorted_forecasts, weather_info >>

\* lines 134-144
CheckEmpty ==
    /\ pc = "check_empty"
    /\ LET it == ItemsOf(data)
       IN  IF ~it.ok THEN Throw(it.exc) /\ UNCHANGED << items, weather_info >>
           ELSE /\ items' = it.val
                /\ IF ~Truthy(it.val)
                   THEN Finish(Error("EmptyItems", NoArg)) /\ UNCHANGED weather_info
                   ELSE /\ weather_info' =
                              [ location |-> location, date |-> base_date,
                                time |-> base_time, forecasts |-> <<>> ]
                        /\ Goto("decode")
    /\ UNCHANGED << api_key, location, now, base_date, base_time, params,
                    http_calls, response, data, current_forecast,
                    sorted_forecasts >>

\* lines 179-205: the loop over items
DecodeItems ==
    /\ pc = "decode"
    /\ LET cf == Decode(items, base_date, StrfHM(now))
       IN  IF ~cf.ok THEN Throw(cf.exc) /\ UNCHANGED current_forecast
           ELSE current_forecast' = cf.val /\ Goto("sort")
    /\ UNCHANGED << api_key, location, now, base_date, base_time, params,
                    http_calls, response, data, items, sorted_forecasts,
                    weather_info >>

\* lines 208-219
SortAndFormat ==
    /\ pc = "sort"
    /\ LET sorted == SortSlots(current_forecast, <<>>)
           formatted == FormatSlots(Truncate(sorted.val))
       IN  IF ~sorted.ok
           THEN Throw(sorted.exc) /\ UNCHANGED << sorted_forecasts, weather_info >>
           ELSE /\ sorted_forecasts' = sorted.val
                /\ IF ~formatted.ok
                   THEN Throw(formatted.exc) /\ UNCHANGED weather_info
                   ELSE /\ weather_info' =
                              [weather_info EXCEPT !.forecasts = formatted.val]
                        /\ Goto("snapshot")
    /\ UNCHANGED << api_key, location, now, base_date, base_time, params,
                    http_calls, response, data, items, current_forecast >>

\* lines 222-231: weather_info with the snapshot of its first slot, if any
WithCurrent(info) ==
    IF Len(info.forecasts) > 0
    THEN info @@ [current |-> Snapshot(info.forecasts[1].data)]
    ELSE info

\* lines 222-233
SnapshotAndReturn ==
    /\ pc = "snapshot"
    /\ weather_info' = WithCurrent(weather_info)
    /\ Finish(weather_info')
    /\ UNCHANGED << api_key, location, now, base_date, base_time, params,
                    http_calls, response, data, items, current_forecast,
                    sorted_forecasts >>

Next ==
    \/ CheckApiKey
    \/ CheckLocation
    \/ SelectBatchStep
    \/ HttpGet
    \/ CheckStatus
    \/ CheckXml
    \/ ParseJson
    \/ CheckHeader
    \/ CheckResultCode
    \/ CheckItems
    \/ CheckEmpty
    \/ DecodeItems
    \/ SortAndFormat
    \/ SnapshotAndReturn

Spec == Init /\ [][Next]_vars

-----------------------------------------------------------------------------
(* run_conversation: the run of the assistant and its poll loop *)

\* the statuses a retrieve can show; "incomplete" and the statuses of a run
\* still under way match no branch of lines 96-130
TerminalStatuses == {"completed", "failed", "cancelled", "expired"}
OtherStatuses == {"queued", "in_progress", "cancelling", "incomplete"}
RunStatuses == TerminalStatuses \cup {"requires_action"} \cup OtherStatuses

\* the number of retrieve calls followed
MaxPolls == 3

\* the longest list of tool calls of one required action
MaxToolCalls == 2

\* tool_call.function.name and what tool_call.function.arguments holds
FunctionNames == {"get_weather", "other"}
ArgumentTexts == {"with_location", "without_location", "not_json"}
ToolCall(name, arguments) == [name |-> name, arguments |-> arguments]
ToolCallLists ==
    SeqsUpTo({ ToolCall(n, a) : n \in FunctionNames, a \in ArgumentTexts },
             MaxToolCalls) \ { <<>> }

\* the longest messages.data
MaxMessages == 3

\* a message of the thread: its role and whether content[0] exists
Message(role, content) == [role |-> role, content |-> content]
AssistantMessages == { Message("assistant", 1), Message("assistant", 0) }
\* messages.data, the most recent first: what the assistant wrote, then the
\* user's message of line 77 in the thread created at line 74
MessageLists ==
    { Append(m, Message("user", 1)) :
        m \in SeqsUpTo(AssistantMessages, MaxMessages - 1) }

\* what get_weather does when called: it returns a structure or it raises
WeatherOutcomes == {"returned", "raised"}

\* the three strings run_conversation returns
Reply == [t |-> "str", msg |-> "Reply", arg |-> "assistant"]
RunEnded(status) == [t |-> "str", msg |-> "RunEnded", arg |-> status]
AgentFailed == [t |-> "str", msg |-> "AgentFailed", arg |-> "exception"]

AReturn(r) == a_pc' = "returned" /\ a_result' = r

\* lines 136-137: any Exception raised in the try block is returned as text
ACatch ==
    /\ AReturn(AgentFailed)
    /\ UNCHANGED << run_status, polls, tool_calls, tool_outputs,
                    weather_calls, submits, messages >>

\* lines 47-87: create the assistant, the thread, the message and the run
Setup ==
    /\ a_pc = "setup"
    /\ \/ /\ a_pc' = "poll"
          /\ UNCHANGED << run_status, polls, tool_calls, tool_outputs,
                          weather_calls, submits, messages, a_result >>
       \/ ACatch
    /\ UNCHANGED tool_vars

\* lines 91-94: run = client.beta.threads.runs.retrieve(...)
Retrieve ==
    /\ a_pc = "poll"
    /\ polls < MaxPolls
    /\ \/ /\ \E s \in RunStatuses :
                /\ run_status' = s
                /\ IF s = "requires_action"
                   THEN \E c \in ToolCallLists : tool_calls' = c
                   ELSE tool_calls' = <<>>
          /\ polls' = polls + 1
          /\ weather_calls' = 0
          /\ submits' = 0
          /\ a_pc' = "dispatch"
          /\ UNCHANGED << tool_outputs, messages, a_result >>
       \/ ACatch
    /\ UNCHANGED tool_vars

\* Dispatch without the branch of line 129
DispatchCompletedOnly ==
    /\ a_pc = "dispatch"
    /\ IF run_status = "requires_action"
       THEN /\ a_pc' = "tool_calls"
            /\ tool_outputs' = <<>>
            /\ UNCHANGED a_result
       ELSE IF run_status = "completed"
       THEN /\ a_pc' = "list_messages"
            /\ UNCHANGED << tool_outputs, a_result >>
       ELSE /\ a_pc' = "sleep"
            /\ UNCHANGED << tool_outputs, a_result >>
    /\ UNCHANGED << run_status, polls, tool_calls, weather_calls, submits,
                    messages >>
    /\ UNCHANGED tool_vars

\* lines 96, 118, 129: the branch the status takes
Dispatch ==
    /\ a_pc = "dispatch"
    /\ IF run_status = "requires_action"
       THEN /\ a_pc' = "tool_calls"
            /\ tool_outputs' = <<>>
            /\ UNCHANGED a_result
       ELSE IF run_status = "completed"
       THEN /\ a_pc' = "list_messages"
            /\ UNCHANGED << tool_outputs, a_result >>
       ELSE IF run_status \in {"failed", "cancelled", "expired"}
       THEN /\ AReturn(RunEnded(run_status))
            /\ UNCHANGED tool_outputs
       ELSE /\ a_pc' = "sleep"
            /\ UNCHANGED << tool_outputs, a_result >>
    /\ UNCHANGED << run_status, polls, tool_calls, weather_calls, submits,
                    messages >>
    /\ UNCHANGED tool_vars

\* lines 100-109: one turn of the loop over tool_calls
HandleToolCall ==
    /\ a_pc = "tool_calls"
    /\ tool_calls # <<>>
    /\ LET tool_call == Head(tool_calls)
       IN  \* line 102: json.loads(tool_call.function.arguments)
           IF tool_call.arguments = "not_json"
           THEN ACatch
           ELSE IF tool_call.name # "get_weather"
           THEN /\ tool_calls' = Tail(tool_calls)
                /\ UNCHANGED << a_pc, run_status, polls, tool_outputs,
                                weather_calls, submits, messages, a_result >>
           \* line 105: function_args["location"]
           ELSE IF tool_call.arguments = "without_location"
           THEN ACatch
           ELSE \E o \in WeatherOutcomes :
                  IF o = "raised"
                  THEN /\ AReturn(AgentFailed)
                       /\ weather_calls' = weather_calls + 1
                       /\ UNCHANGED << run_status, polls, tool_calls,
                                       tool_outputs, submits, messages >>
                  ELSE /\ tool_calls' = Tail(tool_calls)
                       /\ tool_outputs' = Append(tool_outputs, o)
                       /\ weather_calls' = weather_calls + 1
                       /\ UNCHANGED << a_pc, run_status, polls, submits,
                                       messages, a_result >>
    /\ UNCHANGED tool_vars

\* lines 112-116: client.beta.threads.runs.submit_tool_outputs(...)
SubmitToolOutputs ==
    /\ a_pc = "tool_calls"
    /\ tool_calls = <<>>
    /\ \/ /\ submits' = submits + 1
          /\ a_pc' = "sleep"
          /\ UNCHANGED << run_status, polls, tool_calls, tool_outputs,
                          weather_calls, messages, a_result >>
       \/ ACatch
    /\ UNCHANGED tool_vars

\* lines 120-122: messages = client.beta.threads.messages.list(...)
ListMessages ==
    /\ a_pc = "list_messages"
    /\ \/ /\ messages' \in MessageLists
          /\ a_pc' = "scan"
          /\ UNCHANGED << run_status, polls, tool_calls, tool_outputs,
                          weather_calls, submits, a_result >>
       \/ ACatch
    /\ UNCHANGED tool_vars

\* the index of the first message of the assistant, 0 when there is none
FirstAssistant(m) ==
    LET found == { i \in 1..Len(m) : m[i].role = "assistant" }
    IN  IF found = {} THEN 0
        ELSE CHOOSE i \in found : \A j \in found : i <= j

\* lines 125-127: return the text of the first message of the assistant;
\* without one the loop ends and control reaches line 133
ScanMessages ==
    /\ a_pc = "scan"
    /\ LET i == FirstAssistant(messages)
       IN  IF i = 0
           THEN a_pc' = "sleep" /\ UNCHANGED a_result
           \* message.content[0] of an empty content: IndexError
           ELSE IF messages[i].content = 0
           THEN AReturn(AgentFailed)
           ELSE AReturn(Reply)
    /\ UNCHANGED << run_status, polls, tool_calls, tool_outputs,
                    weather_calls, submits, messages >>
    /\ UNCHANGED tool_vars

\* lines 133-134: time.sleep(1), then the next turn of the while loop
Sleep ==
    /\ a_pc = "sleep"
    /\ a_pc' = "poll"
    /\ UNCHANGED << run_status, polls, tool_calls, tool_outputs,
                    weather_calls, submits, messages, a_result >>
    /\ UNCHANGED tool_vars

NextAgent ==
    \/ Setup
    \/ Retrieve
    \/ Dispatch
    \/ HandleToolCall
    \/ SubmitToolOutputs
    \/ ListMessages
    \/ ScanMessages
    \/ Sleep

SpecAgent == Init /\ [][NextAgent]_vars

-----------------------------------------------------------------------------
(* Properties *)

Returned == pc = "returned"
IsError == Returned /\ "error" \in DOMAIN result
IsSuccess == Returned /\ "error" \notin DOMAIN result

\* C1: get_weather never raises to its caller: whatever the location, the
\* API key, the network outcome and the response body, the call ends by
\* returning an error structure or a weather structure.
C1_NeverRaises == pc # "raised"

\* the clock reading as two numbers, YYYYMMDD and HHMM
RECURSIVE DigitsValue(_)
DigitsValue(ds) ==
    IF ds = <<>> THEN 0
    ELSE 10 * DigitsValue(SubSeq(ds, 1, Len(ds) - 1)) + ds[Len(ds)]

NowYmd == now.year * 10000 + now.month * 100 + now.day
NowHM == now.hour * 100 + now.minute

\* C2: every slot of the forecasts list of a success result is at or after
\* the current wall-clock time: (fcstDate, fcstTime) >= (now's date, now's
\* HHMM), for every hour of now including 0 and 1.
C2_SlotsNotBeforeNow ==
    IsSuccess =>
        \A i \in 1..Len(result.forecasts) :
            LET d == DigitsValue(sorted_forecasts[i].date.ds)
                t == DigitsValue(sorted_forecasts[i].time.ds)
            IN  d > NowYmd \/ (d = NowYmd /\ t >= NowHM)

SupportedNames == DOMAIN location_codes

ListsEverySupportedName(names) ==
    \A name \in SupportedNames : \E i \in 1..Len(names) : names[i] = name

\* C3 as stated: for any location name that is not a supported name,
\* get_weather returns the LookupError, in every configuration state, the
\* API key absent included.
C3_LookupErrorWhateverTheKey ==
    (pc \in {"returned", "raised"} /\ location \notin SupportedNames) =>
        /\ IsError
        /\ result.error.msg = "NoLocationCode"

\* C3 amended: for any location name that is not one of the 20 supported
\* names, get_weather makes no request and returns an error: the LookupError
\* naming the location and listing every supported name when the API key is
\* set, and the ConfigError of the missing key when it is not.
C3_LookupErrorWhenKeySet ==
    /\ Cardinality(SupportedNames) = 20
    /\ location \notin SupportedNames =>
          /\ pc \in {"check_key", "check_location", "returned"}
          /\ Returned =>
                /\ IsError
                /\ IF Truthy(api_key)
                   THEN /\ result.error.msg = "NoLocationCode"
                        /\ result.error.arg.location = location
                        /\ ListsEverySupportedName(result.error.arg.names)
                   ELSE result.error.msg = "NoApiKey"

C3_Witness ==
    /\ IsError
    /\ location = "seoul"
    /\ Truthy(api_key)
    /\ result.error.msg = "NoLocationCode"

IssuanceHours == { 2, 5, 8, 11, 14, 17, 20, 23 }

\* the dates of the clock readings and the days before them, as YYYYMMDD
ExpectedYmd(n, back) ==
    CASE n.year = 2024 /\ n.month = 3 /\ n.day = 1 ->
            IF back THEN <<2, 0, 2, 4, 0, 2, 2, 9>> ELSE <<2, 0, 2, 4, 0, 3, 0, 1>>
      [] n.year = 2023 /\ n.month = 12 /\ n.day = 31 ->
            IF back THEN <<2, 0, 2, 3, 1, 2, 3, 0>> ELSE <<2, 0, 2, 3, 1, 2, 3, 1>>

\* C4: the batch is a function of now's date and hour alone: for an hour h
\* of 2..23 base_time is the greatest issuance hour <= h with now's date, and
\* for h in {0, 1} the batch is the day before with "2300".
C4_BatchSelection ==
    base_time # <<>> =>
        IF now.hour < 2
        THEN /\ base_date = ExpectedYmd(now, TRUE)
             /\ base_time = <<2, 3, 0, 0>>
        ELSE LET g == CHOOSE x \in IssuanceHours :
                          /\ x <= now.hour
                          /\ \A y \in IssuanceHours : y <= now.hour => y <= x
             IN  /\ base_date = ExpectedYmd(now, FALSE)
                 /\ base_time = << g \div 10, g % 10, 0, 0 >>

\* half past one on 1 March 2024: the batch of 29 February, 23:00
C4_Witness ==
    /\ pc = "request"
    /\ now.hour = 1
    /\ now.minute = 30
    /\ base_date = <<2, 0, 2, 4, 0, 2, 2, 9>>
    /\ base_time = <<2, 3, 0, 0>>

SuccessKeys == { "location", "date", "time", "forecasts" }

\* C5: the result is a tagged union: a returned value has the key 'error'
\* and nothing else, or location, date, time and forecasts (and possibly
\* current) and no 'error'; once a value is returned no stage runs.
C5_TaggedUnion ==
    Returned =>
        /\ \/ DOMAIN result = {"error"}
           \/ DOMAIN result = SuccessKeys
           \/ DOMAIN result = SuccessKeys \cup {"current"}
        /\ ~ENABLED Next

\* an error produced while the success structure was being filled
C5_Witness ==
    /\ IsError
    /\ "forecasts" \in DOMAIN weather_info
    /\ result.error.msg = "ProcessingFailed"

\* C7: a call makes at most one HTTP request, whatever its outcome, and
\* none when the API key is missing or the location is unsupported.
C7_AtMostOneRequest ==
    /\ http_calls <= 1
    /\ (~Truthy(api_key) \/ location \notin SupportedNames) => http_calls = 0
    /\ pc \in {"check_key", "check_location", "select_batch", "request"}
          => http_calls = 0

\* a request that failed and was not repeated
C7_Witness ==
    /\ IsError
    /\ result.error.msg = "RequestFailed"
    /\ http_calls = 1

-----------------------------------------------------------------------------
(* Properties of the classification of a parsed body *)

\* the parsed body is made of mappings as far as its nested fields go, and
\* a header carries resultCode and resultMsg
MappingsAllTheWay ==
    /\ data.t = "dict"
    /\ "response" \in DOMAIN data.d =>
          LET r == data.d.response
          IN  /\ r.t = "dict"
              /\ "header" \in DOMAIN r.d =>
                    /\ r.d.header.t = "dict"
                    /\ {"resultCode", "resultMsg"} \subseteq DOMAIN r.d.header.d
              /\ "body" \in DOMAIN r.d =>
                    /\ r.d.body.t = "dict"
                    /\ "items" \in DOMAIN r.d.body.d => r.d.body.d.items.t = "dict"

HasHeader ==
    /\ "response" \in DOMAIN data.d
    /\ "header" \in DOMAIN data.d.response.d

HasItem ==
    /\ "response" \in DOMAIN data.d
    /\ "body" \in DOMAIN data.d.response.d
    /\ "items" \in DOMAIN data.d.response.d.body.d
    /\ "item" \in DOMAIN data.d.response.d.body.d.items.d

HeaderOf == data.d.response.d.header.d

CodeIsOk == HeaderOf.resultCode.t = "digits" /\ HeaderOf.resultCode.ds = <<0, 0>>

Ended == pc \in {"returned", "raised"}

\* C6 as stated: a parsed body that lacks response.header or
\* response.body.items.item is reported as a FormatError before the
\* resultCode check applies, whatever the resultCode.
C6_FormatErrorBeforeResultCode ==
    (Ended /\ MappingsAllTheWay /\ (~HasHeader \/ ~HasItem)) =>
        /\ IsError
        /\ result.error.msg \in {"BadFormat", "NoWeatherData"}

\* C6 amended: failures are classified in the order non-200 status, XML
\* fault, unparseable body, missing response.header (FormatError),
\* resultCode other than "00" (ServiceError carrying resultMsg, also when
\* response.body.items.item is missing), and only then missing
\* response.body.items.item (the "no weather data" error).
C6_ClassificationOrder ==
    (Ended /\ "status_code" \in DOMAIN response) =>
        IF response.status_code # 200
        THEN IsError /\ result.error.msg = "HttpStatus"
                     /\ result.error.arg = PyInt(response.status_code)
        ELSE IF response.text.envelope
        THEN IsError /\ result.error.msg \in
                {"KeyInvalid", "KeyNotRegistered", "DailyLimit", "Expired",
                 "BadParameter"}
        ELSE IF ~response.text.json.ok
        THEN IsError /\ result.error.msg = "NotJson"
        ELSE MappingsAllTheWay =>
            IF ~HasHeader
            THEN IsError /\ result.error.msg = "BadFormat"
            ELSE IF ~CodeIsOk
            THEN IsError /\ result.error.msg = "ApiError"
                         /\ result.error.arg = HeaderOf.resultMsg
            ELSE IF ~HasItem
            THEN IsError /\ result.error.msg = "NoWeatherData"
            ELSE ~(IsError /\ result.error.msg \in
                      {"HttpStatus", "NotJson", "BadFormat", "ApiError",
                       "NoWeatherData"})

\* a body with a header, a resultCode other than "00" and no items
C6_Witness ==
    /\ IsError
    /\ MappingsAllTheWay
    /\ HasHeader
    /\ ~HasItem
    /\ ~CodeIsOk
    /\ result.error.msg = "ApiError"

-----------------------------------------------------------------------------
(* Properties of the decoder *)

KnownCodes ==
    { "POP", "PTY", "REH", "SKY", "TMP", "TMN", "TMX", "UUU", "VVV", "WAV",
      "VEC", "WSD" }

\* items is a list of records with a text category and digit strings for
\* fcstDate and fcstTime
ItemsWellFormed ==
    /\ items.t = "list"
    /\ \A i \in 1..Len(items.l) :
          LET r == items.l[i]
          IN  /\ r.t = "dict"
              /\ {"category", "fcstDate", "fcstTime"} \subseteq DOMAIN r.d
              /\ r.d.category.t = "str"
              /\ r.d.fcstDate.t = "digits"
              /\ r.d.fcstTime.t = "digits"

\* (fcstDate, fcstTime) of a record as numbers
Stamp(r) == << DigitsValue(r.d.fcstDate.ds), DigitsValue(r.d.fcstTime.ds) >>

StampBefore(a, b) == a[1] < b[1] \/ (a[1] = b[1] /\ a[2] < b[2])

\* the time filter: after the batch date, or on it and not before now's HHMM
PassesTimeFilter(r) ==
    LET st == Stamp(r)
        bd == DigitsValue(base_date)
    IN  st[1] > bd \/ (st[1] = bd /\ st[2] >= NowHM)

Usable(r) == PassesTimeFilter(r) /\ r.d.category.s \in KnownCodes

UsableStamps == { Stamp(items.l[i]) : i \in { j \in 1..Len(items.l) : Usable(items.l[j]) } }

SlotStamp(i) ==
    << DigitsValue(sorted_forecasts[i].date.ds),
       DigitsValue(sorted_forecasts[i].time.ds) >>

\* C8: for any unordered item list the forecasts list holds one slot per
\* distinct (fcstDate, fcstTime) among the records that pass the time filter
\* and carry a known category, in strictly ascending order, and is exactly
\* the min(24, n) earliest of those n timestamps.
C8_EarliestSlots ==
    (IsSuccess /\ ItemsWellFormed) =>
        LET n == Cardinality(UsableStamps)
            k == Len(result.forecasts)
        IN  /\ k = IF n < 24 THEN n ELSE 24
            /\ \A i \in 1..k :
                  /\ SlotStamp(i) \in UsableStamps
                  /\ result.forecasts[i].date =
                        [ mm |-> Pad((SlotStamp(i)[1] \div 100) % 100, 2),
                          dd |-> Pad(SlotStamp(i)[1] % 100, 2) ]
                  /\ result.forecasts[i].time =
                        [ hh |-> Pad(SlotStamp(i)[2] \div 100, 2),
                          mi |-> Pad(SlotStamp(i)[2] % 100, 2) ]
            /\ \A i \in 1..(k - 1) : StampBefore(SlotStamp(i), SlotStamp(i + 1))
            /\ \A st \in UsableStamps :
                  \/ \E i \in 1..k : SlotStamp(i) = st
                  \/ k = 24 /\ StampBefore(SlotStamp(k), st)

\* more than 24 usable timestamps, given out of order
C8_Witness ==
    /\ IsSuccess
    /\ ItemsWellFormed
    /\ Cardinality(UsableStamps) > 24
    /\ Len(result.forecasts) = 24
    /\ \E i \in 1..(Len(items.l) - 1) :
          StampBefore(Stamp(items.l[i + 1]), Stamp(items.l[i]))

SnapshotFields ==
    { << "temperature", "temperature" >>, << "sky", "sky" >>,
      << "precipitation_type", "precipitation type" >>,
      << "precipitation_probability", "precipitation probability" >>,
      << "humidity", "humidity" >>, << "wind_speed", "wind speed" >> }

\* C9: a success result has 'current' if and only if forecasts is not empty;
\* each of its six fields is the value of its label in the data of the
\* first, earliest slot, or "no info" when the slot has no such label.
C9_CurrentSnapshot ==
    IsSuccess =>
        /\ "current" \in DOMAIN result <=> Len(result.forecasts) > 0
        /\ "current" \in DOMAIN result =>
              LET first == result.forecasts[1].data
              IN  /\ DOMAIN result.current = { f[1] : f \in SnapshotFields }
                  /\ \A f \in SnapshotFields :
                        result.current[f[1]] =
                            IF f[2] \in DOMAIN first THEN first[f[2]]
                            ELSE PyStr("no info")
                  /\ first = sorted_forecasts[1].data
                  /\ \A i \in 2..Len(sorted_forecasts) :
                        sorted_forecasts[i].time.t = "digits" =>
                            StampBefore(SlotStamp(1), SlotStamp(i))

\* a first slot with a temperature and a precipitation type and no wind speed
C9_Witness ==
    /\ IsSuccess
    /\ "current" \in DOMAIN result
    /\ result.current.temperature = PyDigits(<<5>>)
    /\ result.current.precipitation_type = PyStr("rain")
    /\ result.current.wind_speed = PyStr("no info")
    /\ "wind speed" \notin DOMAIN result.forecasts[1].data

\* the value the claim gives a record of a known category
DecodedValue(r) ==
    LET v == r.d.fcstValue
        c == r.d.category.s
    IN  IF c = "PTY" /\ v.t = "digits" /\ v.ds \in {<<0>>, <<1>>, <<2>>, <<3>>, <<4>>}
        THEN PyStr(CASE v.ds = <<0>> -> "none" [] v.ds = <<1>> -> "rain"
                     [] v.ds = <<2>> -> "rain/snow" [] v.ds = <<3>> -> "snow"
                     [] v.ds = <<4>> -> "shower")
        ELSE IF c = "SKY" /\ v.t = "digits" /\ v.ds \in {<<1>>, <<3>>, <<4>>}
        THEN PyStr(CASE v.ds = <<1>> -> "clear" [] v.ds = <<3>> -> "mostly cloudy"
                     [] v.ds = <<4>> -> "overcast")
        ELSE v

\* the last usable record of items for a timestamp and a label
LastRecordFor(st, label) ==
    LET S == { i \in 1..Len(items.l) :
                 /\ Usable(items.l[i])
                 /\ Stamp(items.l[i]) = st
                 /\ weather_codes[items.l[i].d.category.s] = label }
    IN  IF S = {} THEN 0 ELSE CHOOSE i \in S : \A j \in S : j <= i

\* C10: a record of an unknown category adds nothing to any slot and makes
\* no slot; a PTY value 0..4 and a SKY value 1, 3, 4 are replaced by their
\* labels; every other value is stored unchanged under the category's
\* label; every slot's data is non-empty and keyed by known labels only.
C10_RecordDecoding ==
    (IsSuccess /\ ItemsWellFormed) =>
        /\ \A j \in 1..Len(sorted_forecasts) :
              LET slot == sorted_forecasts[j]
              IN  /\ DOMAIN slot.data # {}
                  /\ \A label \in DOMAIN slot.data :
                        LET i == LastRecordFor(SlotStamp(j), label)
                        IN  /\ label \in { weather_codes[c] : c \in KnownCodes }
                            /\ i # 0
                            /\ slot.data[label] = DecodedValue(items.l[i])
                  /\ j <= Len(result.forecasts) =>
                        result.forecasts[j].data = slot.data
        /\ \A i \in 1..Len(items.l) :
              Usable(items.l[i]) =>
                  \E j \in 1..Len(sorted_forecasts) :
                      /\ SlotStamp(j) = Stamp(items.l[i])
                      /\ weather_codes[items.l[i].d.category.s]
                            \in DOMAIN sorted_forecasts[j].data

\* a list with a record of an unknown category that passes the time filter,
\* a SKY code that is decoded and one that is stored unchanged
C10_Witness ==
    /\ IsSuccess
    /\ ItemsWellFormed
    /\ \E i \in 1..Len(items.l) :
          /\ items.l[i].d.category.s = "XXX"
          /\ PassesTimeFilter(items.l[i])
          /\ \A j \in 1..Len(sorted_forecasts) : SlotStamp(j) # Stamp(items.l[i])
    /\ \E j \in 1..Len(result.forecasts) :
          /\ "sky" \in DOMAIN result.forecasts[j].data
          /\ result.forecasts[j].data["sky"] = PyStr("clear")
    /\ \E j \in 1..Len(result.forecasts) :
          /\ "sky" \in DOMAIN result.forecasts[j].data
          /\ result.forecasts[j].data["sky"] = PyDigits(<<2>>)

-----------------------------------------------------------------------------
(* Properties of a response without usable records *)

\* the 'item' value of the response is empty
ItemValueEmpty ==
    \/ items.t = "none"
    \/ items.t = "list" /\ Len(items.l) = 0
    \/ items.t = "dict" /\ DOMAIN items.d = {}
    \/ items.t = "int" /\ items.n = 0
    \/ items.t = "str" /\ items.s = ""

\* C11 as stated: whenever zero forecast slots result, because the item
\* list is empty or because every record is filtered out as past or has an
\* unknown category, get_weather returns an error structure and never a
\* success structure with an empty forecasts list.
C11_NoSlotsIsError ==
    IsSuccess => Len(result.forecasts) > 0

\* C11 amended: a well-formed response whose 'item' value is empty is
\* reported as the EmptyDataError; a non-empty list of records that are all
\* filtered out as past or of an unknown category gives a success structure
\* with an empty forecasts list and no 'current', not an error.
C11_EmptyData ==
    (Returned /\ items.t # "unset") =>
        /\ ItemValueEmpty => IsError /\ result.error.msg = "EmptyItems"
        /\ (ItemsWellFormed /\ Len(items.l) > 0 /\ UsableStamps = {}) =>
              /\ IsSuccess
              /\ result.forecasts = <<>>
              /\ "current" \notin DOMAIN result
              /\ result.location = location
              /\ result.date = base_date
              /\ result.time = base_time

\* a list whose only record is of a known category and lies in the past
C11_Witness ==
    /\ IsSuccess
    /\ ItemsWellFormed
    /\ Len(items.l) = 1
    /\ items.l[1].d.category.s \in KnownCodes
    /\ ~PassesTimeFilter(items.l[1])
    /\ result.forecasts = <<>>

-----------------------------------------------------------------------------
(* Properties of the poll loop of run_conversation *)

AReturned == a_pc = "returned"

\* C12 as stated: once a poll observes completed, failed, cancelled or
\* expired, run_conversation returns a string without polling again, also
\* when the completed thread holds no message of the assistant; between two
\* polls it handles at most one requires_action and submits the tool
\* outputs exactly once.
C12_StopsAtTerminal ==
    /\ a_pc \in {"sleep", "poll"} => run_status \notin TerminalStatuses
    /\ AReturned => a_result.t = "str"
    /\ submits <= 1
    /\ (a_pc = "sleep" /\ run_status = "requires_action") => submits = 1

\* C12, the parts the code keeps: a poll that observes failed, cancelled or
\* expired ends the call with a string naming the status, a completed run
\* with a message of the assistant ends it with a string, and the only turn
\* of the loop that observes a terminal status and polls again is a
\* completed run without a message of the assistant; a required action is
\* answered by one submission holding one output per get_weather call.
C12_OtherParts ==
    /\ (a_pc \in {"sleep", "poll"} /\ run_status \in TerminalStatuses) =>
          /\ run_status = "completed"
          /\ FirstAssistant(messages) = 0
    /\ AReturned => a_result.t = "str"
    /\ (AReturned /\ a_result.msg = "RunEnded") =>
          /\ a_result.arg = run_status
          /\ run_status \in {"failed", "cancelled", "expired"}
    /\ submits <= 1
    /\ (a_pc = "sleep" /\ run_status = "requires_action") =>
          /\ submits = 1
          /\ weather_calls = Len(tool_outputs)

\* a completed run whose thread held no message of the assistant has been
\* polled again, and that poll observed a failed run and returned
C12_Witness ==
    /\ AReturned
    /\ polls > 1
    /\ Len(messages) > 0
    /\ FirstAssistant(messages) = 0
    /\ a_result = RunEnded("failed")

====
